---- MODULE Spec2Model ----
(***************************************************************************)
(* Workspace tree and tri-state selection engine of the context loader:    *)
(* build_tree_from_file_info, convert_blueprint_to_file_tree_node_recursive*)
(* the FileTree memo and its checkbox handlers (components/file_tree.rs),  *)
(* the workspace load effect and the toolbar handlers (main.rs), and the   *)
(* .gitignore seeding (workspace_event_handler.rs, gitignore_handler.rs).  *)
(*                                                                         *)
(* A path is the sequence of its normal components below the filesystem    *)
(* root: "/w/d/b" is <<"w","d","b">>.  A forest is kept flat: one record   *)
(* per node in creation order, each naming its parent's id (-1 at the root *)
(* level); the children of a node are the nodes naming it, in id order,    *)
(* which is the order in which the code pushes them.                       *)
(***************************************************************************)
EXTENDS Integers, Sequences, FiniteSets, TLC

VARIABLES
    current_workspace,  \* main.rs:195  None or the workspace root
    files,              \* main.rs:197  Vec<FileInfo>
    selected_files,     \* main.rs:196  HashSet<PathBuf>, the SelectionSet
    tree_nodes,         \* file_tree.rs:295  value of tree_nodes_memo
    last_event,         \* the last handler that wrote a signal, and its inputs
    gi_root,            \* handle_workspace_opened: workspace_path_str
    gi_listing,         \* get_all_workspace_files: relative paths found
    gi_state,           \* .gitignore at the root: absent, unreadable, readable
    gi_lines,           \* read_gitignore_patterns: raw lines of .gitignore
    gi_patterns,        \* processed_patterns of the last call
    gi_result,          \* the Result values returned so far, in order
    cc_paths,           \* concat_files: the paths argument
    cc_files,           \* what File::open and read_to_string give per path
    cc_result,          \* the Result values concat_files returned so far
    st_settings,        \* main.rs:194  the settings signal (a Settings value)
    st_tasks,           \* the spawned settings tasks that await save()
    st_calls            \* the settings changes asked for so far, in order

appVars == <<current_workspace, files, selected_files, tree_nodes,
             last_event>>
giVars == <<gi_root, gi_listing, gi_state, gi_lines, gi_patterns, gi_result>>
ccVars == <<cc_paths, cc_files, cc_result>>
stVars == <<st_settings, st_tasks, st_calls>>
vars == <<current_workspace, files, selected_files, tree_nodes, last_event,
          gi_root, gi_listing, gi_state, gi_lines, gi_patterns, gi_result,
          cc_paths, cc_files, cc_result, st_settings, st_tasks, st_calls>>

None == "None"

\* Settings::new: no recent workspace, TokenEstimator::default().
DefaultSettings == [recent_workspaces |-> <<>>, token_estimator |-> "CharDiv4"]

(***************************************************************************)
(* Paths.                                                                  *)
(***************************************************************************)

\* Byte order of the component names used (std::cmp::Ord for OsStr).
NameOrder == <<".gitignore", "a", "b", "c", "d", "e", "v", "w", "x">>

Rank(name) == CHOOSE i \in DOMAIN NameOrder : NameOrder[i] = name

Last(s) == s[Len(s)]

Min(S) == CHOOSE x \in S : \A y \in S : x <= y

\* Path::starts_with: every component of base is a component of path, in place.
StartsWith(path, base) ==
    /\ Len(base) <= Len(path)
    /\ \A i \in 1..Len(base) : path[i] = base[i]

\* Ord for PathBuf: component-wise lexicographic, a proper prefix first.
RECURSIVE PathLess(_, _)
PathLess(p, q) ==
    IF p = <<>> THEN q # <<>>
    ELSE IF q = <<>> THEN FALSE
    ELSE IF Head(p) = Head(q) THEN PathLess(Tail(p), Tail(q))
    ELSE Rank(Head(p)) < Rank(Head(q))

\* FileInfo::new: name is the path's file_name.
FileInfo(path) == [name |-> Last(path), path |-> path]

SeqsUpTo(S, n) == UNION {[1..k -> S] : k \in 0..n}

\* The paths of a list of FileInfo records.
PathsOf(fs) == {fs[i].path : i \in DOMAIN fs}

\* Path::join of a root and a relative path.
Join(root, rel) == root \o rel

(***************************************************************************)
(* build_tree_from_file_info                                               *)
(***************************************************************************)

\* slice::sort_by_key is stable: f goes after every record whose key is not
\* greater than its own.
RECURSIVE InsertByPath(_, _)
InsertByPath(sorted, f) ==
    IF sorted = <<>> THEN <<f>>
    ELSE IF PathLess(f.path, Head(sorted).path) THEN <<f>> \o sorted
    ELSE <<Head(sorted)>> \o InsertByPath(Tail(sorted), f)

RECURSIVE SortByPath(_)
SortByPath(fs) ==
    IF fs = <<>> THEN <<>>
    ELSE InsertByPath(SortByPath(SubSeq(fs, 1, Len(fs) - 1)), Last(fs))

\* strip_prefix(workspace_root) when it leaves at least one component, else
\* the fallback: the record's name as a single component.
PathRelativeToWorkspace(file_info, workspace_root) ==
    IF /\ StartsWith(file_info.path, workspace_root)
       /\ Len(file_info.path) > Len(workspace_root)
    THEN SubSeq(file_info.path, Len(workspace_root) + 1, Len(file_info.path))
    ELSE <<file_info.name>>

\* The blueprint under construction: final_roots (flat) and unique_id_counter.
EmptyBuild == [nodes |-> <<>>, counter |-> 0]

\* The lookup creating every folder expanded.
find_or_create_blueprint_node_Expanded(st, parent, name, full_path, node_type, depth, is_root_folder) ==
    LET found == {i \in DOMAIN st.nodes :
                     /\ st.nodes[i].parent = parent
                     /\ st.nodes[i].name = name
                     /\ st.nodes[i].node_type = node_type}
    IN  IF found # {}
        THEN [st |-> st, node |-> st.nodes[Min(found)].id]
        ELSE [st |-> [nodes |-> Append(st.nodes,
                                   [id |-> st.counter,
                                    name |-> name,
                                    path |-> full_path,
                                    node_type |-> node_type,
                                    parent |-> parent,
                                    is_expanded |-> TRUE,
                                    selection_state |-> "NotSelected",
                                    depth |-> depth]),
                      counter |-> st.counter + 1],
              node |-> st.counter]

find_or_create_blueprint_node(st, parent, name, full_path, node_type, depth, is_root_folder) ==
    LET found == {i \in DOMAIN st.nodes :
                     /\ st.nodes[i].parent = parent
                     /\ st.nodes[i].name = name
                     /\ st.nodes[i].node_type = node_type}
    IN  IF found # {}
        THEN [st |-> st, node |-> st.nodes[Min(found)].id]
        ELSE [st |-> [nodes |-> Append(st.nodes,
                                   [id |-> st.counter,
                                    name |-> name,
                                    path |-> full_path,
                                    node_type |-> node_type,
                                    parent |-> parent,
                                    is_expanded |->
                                        IF depth = 0 THEN TRUE
                                        ELSE is_root_folder,
                                    selection_state |-> "NotSelected",
                                    depth |-> depth]),
                      counter |-> st.counter + 1],
              node |-> st.counter]

\* The file node taking the id after the one the counter holds.
FileNode_IdAhead(st, file_info, component_name, parent, idx, selected_paths) ==
    [id |-> st.counter + 1,
     name |-> component_name,
     path |-> file_info.path,
     node_type |-> "File",
     parent |-> parent,
     is_expanded |-> FALSE,
     selection_state |-> IF file_info.path \in selected_paths
                         THEN "Selected" ELSE "NotSelected",
     depth |-> idx]

\* The file node with the membership looked up by name instead of by path.
FileNode_ByName(st, file_info, component_name, parent, idx, selected_paths) ==
    [id |-> st.counter,
     name |-> component_name,
     path |-> file_info.path,
     node_type |-> "File",
     parent |-> parent,
     is_expanded |-> FALSE,
     selection_state |-> IF \E p \in selected_paths : Last(p) = component_name
                         THEN "Selected" ELSE "NotSelected",
     depth |-> idx]

\* The file node storing its component name where the absolute path goes.
FileNode_NameAsPath(st, file_info, component_name, parent, idx, selected_paths) ==
    [id |-> st.counter,
     name |-> component_name,
     path |-> <<component_name>>,
     node_type |-> "File",
     parent |-> parent,
     is_expanded |-> FALSE,
     selection_state |-> IF file_info.path \in selected_paths
                         THEN "Selected" ELSE "NotSelected",
     depth |-> idx]

\* The file node pushed for the last component.
FileNode(st, file_info, component_name, parent, idx, selected_paths) ==
    [id |-> st.counter,
     name |-> component_name,
     path |-> file_info.path,
     node_type |-> "File",
     parent |-> parent,
     is_expanded |-> FALSE,
     selection_state |-> IF file_info.path \in selected_paths
                         THEN "Selected" ELSE "NotSelected",
     depth |-> idx]

\* The loop over structural_components of one file (idx counts from 0).
RECURSIVE WalkComponents(_, _, _, _, _, _, _)
WalkComponents(st, file_info, comps, idx, parent, acc, selected_paths) ==
    IF idx >= Len(comps) THEN st
    ELSE
      LET component_name == comps[idx + 1]
          is_last_component == (idx = Len(comps) - 1)
      IN  IF is_last_component
          THEN IF \E i \in DOMAIN st.nodes :
                      /\ st.nodes[i].parent = parent
                      /\ st.nodes[i].path = file_info.path
                      /\ st.nodes[i].node_type = "File"
               THEN st
               ELSE [nodes |-> Append(st.nodes,
                                  FileNode(st, file_info, component_name,
                                           parent, idx, selected_paths)),
                     counter |-> st.counter + 1]
          ELSE LET acc2 == Append(acc, component_name)
                   r == find_or_create_blueprint_node(
                            st, parent, component_name, acc2, "Folder",
                            idx, idx = 0)
               IN  WalkComponents(r.st, file_info, comps, idx + 1, r.node,
                                  acc2, selected_paths)

\* The loop over sorted_files.
RECURSIVE BuildLoop(_, _, _, _)
BuildLoop(st, sorted_files, selected_paths, workspace_root) ==
    IF sorted_files = <<>> THEN st
    ELSE BuildLoop(
           WalkComponents(st, Head(sorted_files),
                          PathRelativeToWorkspace(Head(sorted_files),
                                                  workspace_root),
                          0, -1, workspace_root, selected_paths),
           Tail(sorted_files), selected_paths, workspace_root)

build_tree_from_file_info(fs, selected_paths, workspace_root) ==
    IF fs = <<>> THEN <<>>
    ELSE BuildLoop(EmptyBuild, SortByPath(fs), selected_paths,
                   workspace_root).nodes

(***************************************************************************)
(* convert_blueprint_to_file_tree_node_recursive                           *)
(***************************************************************************)

\* Indices of the children of the node with this id, in Vec order.
RECURSIVE ChildrenFrom(_, _, _)
ChildrenFrom(nodes, id, i) ==
    IF i > Len(nodes) THEN <<>>
    ELSE IF nodes[i].parent = id
         THEN <<i>> \o ChildrenFrom(nodes, id, i + 1)
         ELSE ChildrenFrom(nodes, id, i + 1)

Children(nodes, id) == ChildrenFrom(nodes, id, 1)

\* The flags the loop over children_nodes leaves, from the children's states.
RECURSIVE ChildFlags(_, _)
ChildFlags(child_states, flags) ==
    IF child_states = <<>> THEN flags
    ELSE LET s == Head(child_states)
         IN  ChildFlags(Tail(child_states),
               IF s = "Selected"
               THEN [flags EXCEPT !.any_child_selected = TRUE]
               ELSE IF s = "NotSelected"
               THEN [flags EXCEPT !.all_children_selected = FALSE]
               ELSE [flags EXCEPT !.all_children_selected = FALSE,
                                  !.any_child_partially_selected = TRUE])

\* The aggregation without the any_child_partially_selected flag.
FolderState_NoPartialFlag(child_states) ==
    IF child_states = <<>> THEN "NotSelected"
    ELSE LET f == ChildFlags(child_states,
                     [all_children_selected |-> TRUE,
                      any_child_selected |-> FALSE,
                      any_child_partially_selected |-> FALSE])
         IN  IF f.all_children_selected THEN "Selected"
             ELSE IF f.any_child_selected THEN "PartiallySelected"
             ELSE "NotSelected"

\* The aggregation taking the state of the first child for the folder.
FolderState_FirstChild(child_states) ==
    IF child_states = <<>> THEN "NotSelected" ELSE Head(child_states)

FolderState(child_states) ==
    IF child_states = <<>> THEN "NotSelected"
    ELSE LET f == ChildFlags(child_states,
                     [all_children_selected |-> TRUE,
                      any_child_selected |-> FALSE,
                      any_child_partially_selected |-> FALSE])
         IN  IF f.all_children_selected THEN "Selected"
             ELSE IF f.any_child_selected \/ f.any_child_partially_selected
             THEN "PartiallySelected"
             ELSE "NotSelected"

\* The conversion keeping a folder Selected once its blueprint says so.
RECURSIVE ConvertedState_KeepSelected(_, _)
ConvertedState_KeepSelected(blueprint, i) ==
    IF blueprint[i].node_type = "File" \/ blueprint[i].selection_state = "Selected"
    THEN blueprint[i].selection_state
    ELSE LET kids == Children(blueprint, blueprint[i].id)
         IN  FolderState([k \in DOMAIN kids |->
                             ConvertedState_KeepSelected(blueprint, kids[k])])

\* current_node_selection_state of the node at index i: children first.
RECURSIVE ConvertedState(_, _)
ConvertedState(blueprint, i) ==
    IF blueprint[i].node_type = "File"
    THEN blueprint[i].selection_state
    ELSE LET kids == Children(blueprint, blueprint[i].id)
         IN  FolderState([k \in DOMAIN kids |->
                             ConvertedState(blueprint, kids[k])])

convert_blueprint_to_file_tree_node_recursive(blueprint) ==
    [i \in DOMAIN blueprint |->
        [blueprint[i] EXCEPT !.selection_state = ConvertedState(blueprint, i)]]

\* The body of the use_memo closure of FileTree.
RecomputeTree(all_files, selected_paths, workspace_root) ==
    convert_blueprint_to_file_tree_node_recursive(
        build_tree_from_file_info(all_files, selected_paths, workspace_root))

(***************************************************************************)
(* FileTreeNodeDisplay: the checkbox handler (oninput)                     *)
(***************************************************************************)

\* FileTreeNode::collect_all_file_paths_recursive on the node at index i, and
\* its loop over the children.
RECURSIVE collect_all_file_paths_recursive(_, _)
RECURSIVE CollectChildren(_, _)
collect_all_file_paths_recursive(nodes, i) ==
    IF nodes[i].node_type = "File" THEN <<nodes[i].path>>
    ELSE CollectChildren(nodes, Children(nodes, nodes[i].id))

CollectChildren(nodes, kids) ==
    IF kids = <<>> THEN <<>>
    ELSE (IF nodes[Head(kids)].node_type = "File"
          THEN <<nodes[Head(kids)].path>>
          ELSE collect_all_file_paths_recursive(nodes, Head(kids)))
         \o CollectChildren(nodes, Tail(kids))

\* The loop leaving the first of the paths as it was when unchecking.
ApplyToPaths_KeepFirst(selected_paths, paths, is_checked) ==
    IF is_checked
    THEN selected_paths \cup {paths[k] : k \in DOMAIN paths}
    ELSE selected_paths \ {paths[k] : k \in DOMAIN paths \ {1}}

\* The loop over descendant_file_paths: insert or remove each in turn.
RECURSIVE ApplyToPaths(_, _, _)
ApplyToPaths(selected_paths, paths, is_checked) ==
    IF paths = <<>> THEN selected_paths
    ELSE ApplyToPaths(IF is_checked THEN selected_paths \cup {Head(paths)}
                      ELSE selected_paths \ {Head(paths)},
                      Tail(paths), is_checked)

\* oninput treating the folder's own path as one of its descendants' paths.
oninput_WithFolderPath(selected_paths, nodes, i, is_checked) ==
    IF nodes[i].node_type = "File"
    THEN IF is_checked THEN selected_paths \cup {nodes[i].path}
         ELSE selected_paths \ {nodes[i].path}
    ELSE ApplyToPaths(selected_paths,
                      <<nodes[i].path>>
                          \o collect_all_file_paths_recursive(nodes, i),
                      is_checked)

\* oninput taking for a folder every File node whose path starts with the
\* folder's path.
oninput_ByPathPrefix(selected_paths, nodes, i, is_checked) ==
    LET paths == IF nodes[i].node_type = "File" THEN {nodes[i].path}
                 ELSE {nodes[k].path : k \in {m \in DOMAIN nodes :
                          /\ nodes[m].node_type = "File"
                          /\ StartsWith(nodes[m].path, nodes[i].path)}}
    IN  IF is_checked THEN selected_paths \cup paths
        ELSE selected_paths \ paths

\* What oninput leaves in selected_paths for the node at index i.
oninput(selected_paths, nodes, i, is_checked) ==
    IF nodes[i].node_type = "File"
    THEN IF is_checked THEN selected_paths \cup {nodes[i].path}
         ELSE selected_paths \ {nodes[i].path}
    ELSE ApplyToPaths(selected_paths,
                      collect_all_file_paths_recursive(nodes, i), is_checked)

\* The value the browser hands to oninput: the checkbox is rendered checked
\* exactly for a Selected node, and a click flips what is rendered.
EventValue(node) == node.selection_state # "Selected"

\* A node is rendered when every folder above it is expanded.
RECURSIVE IsRendered(_, _)
IsRendered(nodes, i) ==
    IF nodes[i].parent = -1 THEN TRUE
    ELSE LET p == CHOOSE j \in DOMAIN nodes : nodes[j].id = nodes[i].parent
         IN  nodes[p].is_expanded /\ IsRendered(nodes, p)

(***************************************************************************)
(* gitignore_handler.rs.  A line of .gitignore is a sequence of characters;*)
(* a relative path is the sequence of its components.                      *)
(***************************************************************************)

\* The characters of a component name.
NameChars(name) ==
    IF name = ".gitignore"
    THEN <<".", "g", "i", "t", "i", "g", "n", "o", "r", "e">>
    ELSE <<name>>

IsWhitespace(c) == c \in {" ", "\t"}

\* str::trim
RECURSIVE TrimStart(_)
TrimStart(line) ==
    IF line # <<>> /\ IsWhitespace(Head(line)) THEN TrimStart(Tail(line))
    ELSE line

RECURSIVE TrimEnd(_)
TrimEnd(line) ==
    IF line # <<>> /\ IsWhitespace(Last(line))
    THEN TrimEnd(SubSeq(line, 1, Len(line) - 1))
    ELSE line

\* str::trim taking only the leading whitespace away.
Trim_StartOnly(line) == TrimStart(line)

Trim(line) == TrimEnd(TrimStart(line))

RECURSIVE preprocess_gitignore_lines(_)
preprocess_gitignore_lines(raw_lines) ==
    IF raw_lines = <<>> THEN <<>>
    ELSE LET line == Trim(Head(raw_lines))
         IN  (IF line # <<>> /\ Head(line) # "#" THEN <<line>> ELSE <<>>)
             \o preprocess_gitignore_lines(Tail(raw_lines))

\* The pieces of a pattern between its slashes.
RECURSIVE SplitOnSlash(_, _)
SplitOnSlash(chars, cur) ==
    IF chars = <<>> THEN <<cur>>
    ELSE IF Head(chars) = "/" THEN <<cur>> \o SplitOnSlash(Tail(chars), <<>>)
    ELSE SplitOnSlash(Tail(chars), Append(cur, Head(chars)))

DoubleStar == <<"*", "*">>

\* GitignoreBuilder::add_line on one processed pattern: the glob it adds, or
\* an error (the glob does not parse), or nothing (a comment, an empty line).
AddLine(pattern_str) ==
    LET l0 == TrimEnd(pattern_str)
        is_whitelist == l0 # <<>> /\ Head(l0) = "!"
        l1 == IF is_whitelist THEN Tail(l0) ELSE l0
        is_absolute == l1 # <<>> /\ Head(l1) = "/"
        l2 == IF is_absolute THEN Tail(l1) ELSE l1
        is_only_dir == l2 # <<>> /\ Last(l2) = "/"
        l3 == IF is_only_dir THEN SubSeq(l2, 1, Len(l2) - 1) ELSE l2
        has_slash == \E i \in DOMAIN l3 : l3[i] = "/"
        segs0 == SplitOnSlash(l3, <<>>)
        segs1 == IF ~is_absolute /\ ~has_slash /\ Head(segs0) # DoubleStar
                 THEN <<DoubleStar>> \o segs0 ELSE segs0
        segs == IF Len(segs1) > 1 /\ Last(segs1) = DoubleStar
                THEN Append(segs1, <<"*">>) ELSE segs1
    IN  IF l0 = <<>> \/ Head(l0) = "#" THEN [kind |-> "none"]
        ELSE IF \E i \in DOMAIN l3 : l3[i] = "["
        THEN [kind |-> "error"]
        ELSE [kind |-> "glob", is_whitelist |-> is_whitelist,
              is_only_dir |-> is_only_dir, segs |-> segs]

\* The loop over processed_patterns giving up at the first pattern that
\* add_line refuses.
RECURSIVE BuildGlobs_StopAtError(_)
BuildGlobs_StopAtError(processed_patterns) ==
    IF processed_patterns = <<>> THEN <<>>
    ELSE LET g == AddLine(Head(processed_patterns))
         IN  IF g.kind = "error" THEN <<>>
             ELSE (IF g.kind = "glob" THEN <<g>> ELSE <<>>)
                  \o BuildGlobs_StopAtError(Tail(processed_patterns))

\* The loop of is_file_ignored over processed_patterns: a pattern whose
\* add_line fails is reported and left out, the others are kept in order.
RECURSIVE BuildGlobs(_)
BuildGlobs(processed_patterns) ==
    IF processed_patterns = <<>> THEN <<>>
    ELSE LET g == AddLine(Head(processed_patterns))
         IN  (IF g.kind = "glob" THEN <<g>> ELSE <<>>)
             \o BuildGlobs(Tail(processed_patterns))

\* One piece of a glob against one component: * is any run of characters.
RECURSIVE SegMatch(_, _)
SegMatch(pat, chars) ==
    IF pat = <<>> THEN chars = <<>>
    ELSE IF Head(pat) = "*"
    THEN \/ SegMatch(Tail(pat), chars)
         \/ chars # <<>> /\ SegMatch(pat, Tail(chars))
    ELSE /\ chars # <<>>
         /\ Head(pat) = Head(chars)
         /\ SegMatch(Tail(pat), Tail(chars))

\* A glob against a whole relative path: ** is any run of components.
RECURSIVE GlobMatch(_, _)
GlobMatch(segs, comps) ==
    IF segs = <<>> THEN comps = <<>>
    ELSE IF Head(segs) = DoubleStar
    THEN \/ GlobMatch(Tail(segs), comps)
         \/ comps # <<>> /\ GlobMatch(segs, Tail(comps))
    ELSE /\ comps # <<>>
         /\ SegMatch(Head(segs), NameChars(Head(comps)))
         /\ GlobMatch(Tail(segs), Tail(comps))

\* Gitignore::matched_stripped: the last glob added that matches decides.
RECURSIVE MatchedStripped(_, _, _)
MatchedStripped(globs, comps, is_dir) ==
    IF globs = <<>> THEN "None"
    ELSE LET g == Last(globs)
         IN  IF GlobMatch(g.segs, comps) /\ (~g.is_only_dir \/ is_dir)
             THEN IF g.is_whitelist THEN "Whitelist" ELSE "Ignore"
             ELSE MatchedStripped(SubSeq(globs, 1, Len(globs) - 1), comps,
                                  is_dir)

\* Gitignore::matched_path_or_any_parents: the path itself, then each parent
\* directory from the nearest up, until one of them is matched.
RECURSIVE MatchedParents(_, _)
MatchedParents(globs, comps) ==
    IF Len(comps) <= 1 THEN "None"
    ELSE LET parent == SubSeq(comps, 1, Len(comps) - 1)
             m == MatchedStripped(globs, parent, TRUE)
         IN  IF m # "None" THEN m ELSE MatchedParents(globs, parent)

MatchedPathOrAnyParents(globs, comps) ==
    IF globs = <<>> THEN "None"
    ELSE LET m == MatchedStripped(globs, comps, FALSE)
         IN  IF m # "None" THEN m ELSE MatchedParents(globs, comps)

is_file_ignored(relative_file_path, processed_patterns, workspace_root) ==
    MatchedPathOrAnyParents(BuildGlobs(processed_patterns),
                            relative_file_path) = "Ignore"

(***************************************************************************)
(* workspace_event_handler.rs                                              *)
(***************************************************************************)

\* The loop keeping the ignored files instead of the others.
FilterFiles_Ignored(final_selected_files, all_files, processed_patterns, workspace_root) ==
    final_selected_files \cup
        {all_files[i] : i \in {k \in DOMAIN all_files :
            is_file_ignored(all_files[k], processed_patterns,
                            workspace_root)}}

\* The loop over all_files: a file that is not ignored is inserted.
RECURSIVE FilterFiles(_, _, _, _)
FilterFiles(final_selected_files, all_files, processed_patterns, workspace_root) ==
    IF all_files = <<>> THEN final_selected_files
    ELSE FilterFiles(
           IF ~is_file_ignored(Head(all_files), processed_patterns,
                               workspace_root)
           THEN final_selected_files \cup {Head(all_files)}
           ELSE final_selected_files,
           Tail(all_files), processed_patterns, workspace_root)

\* handle_workspace_opened selecting every file when there is no .gitignore.
handle_workspace_opened_AllWhenAbsent(workspace_root, all_files, gitignore) ==
    IF gitignore.state = "unreadable" THEN [ok |-> FALSE]
    ELSE [ok |-> TRUE,
          selected |-> FilterFiles({}, all_files,
                           preprocess_gitignore_lines(gitignore.lines),
                           workspace_root)]

\* all_files is what get_all_workspace_files found, gitignore is what
\* check_for_gitignore and read_gitignore_patterns meet at the root.
handle_workspace_opened(workspace_root, all_files, gitignore) ==
    IF gitignore.state = "absent"
    THEN [ok |-> TRUE, selected |-> {}]
    ELSE IF gitignore.state = "unreadable"
    THEN [ok |-> FALSE]
    ELSE [ok |-> TRUE,
          selected |-> FilterFiles({}, all_files,
                           preprocess_gitignore_lines(gitignore.lines),
                           workspace_root)]

(***************************************************************************)
(* The filesystem, as the listings meet it.  A snapshot of a workspace is  *)
(* the set of its visible files (relative paths) and its .gitignore.       *)
(***************************************************************************)

MaxFiles == 2

Roots == { <<"w">>, <<"v">> }

WorkspaceFiles(root) ==
    IF root = <<"w">>
    THEN { <<"a">>, <<"d", "b">>, <<"d", "c">>, <<"d", "e", "a">> }
    ELSE { <<"a">> }

Snapshots(root) ==
    {present \in SUBSET WorkspaceFiles(root) : Cardinality(present) <= MaxFiles}

\* The order in which a walk lists a set of paths (here: sorted).
RECURSIVE WalkOrder(_)
WalkOrder(S) ==
    IF S = {} THEN <<>>
    ELSE LET m == CHOOSE x \in S : \A y \in S : y = x \/ PathLess(x, y)
         IN  <<m>> \o WalkOrder(S \ {m})

\* fs_utils::list_files and fs_utils::crawl: hidden entries are filtered out.
list_files(dir, present) ==
    LET seen == WalkOrder(present)
    IN  [i \in DOMAIN seen |-> FileInfo(Join(dir, seen[i]))]

\* fs_utils::get_all_workspace_files: every file outside .git, hidden ones
\* included, as paths relative to the root.
get_all_workspace_files(workspace_root_path, present, gitignore) ==
    WalkOrder(present \cup (IF gitignore.state = "absent" THEN {}
                            ELSE { <<".gitignore">> }))

\* The .gitignore files a workspace is opened with.
GitignoreLines ==
    { <<>>,
      << <<"d", "/", "c">> >>,
      << <<".", "*">>, <<"!", "a">> >> }

Gitignores ==
    { [state |-> "absent", lines |-> <<>>],
      [state |-> "unreadable", lines |-> <<>>] }
    \cup { [state |-> "readable", lines |-> l] : l \in GitignoreLines }

(***************************************************************************)
(* App (main.rs) and FileTree (components/file_tree.rs)                    *)
(***************************************************************************)

Init ==
    /\ current_workspace = None
    /\ files = <<>>
    /\ selected_files = {}
    /\ tree_nodes = <<>>
    /\ last_event = [op |-> "init"]
    /\ gi_root = None /\ gi_listing = <<>> /\ gi_state = "absent"
    /\ gi_lines = <<>> /\ gi_patterns = <<>> /\ gi_result = <<>>
    /\ cc_paths = <<>> /\ cc_files = <<>> /\ cc_result = <<>>
    /\ st_settings = DefaultSettings /\ st_tasks = <<>> /\ st_calls = <<>>

\* The load task leaving every listed file selected when the seeding fails.
WorkspaceLoad_AllOnError(path, present, gitignore) ==
    LET list == list_files(path, present)
        r == handle_workspace_opened(
                 path, get_all_workspace_files(path, present, gitignore),
                 gitignore)
        initial_selection_absolute ==
            IF r.ok THEN {Join(path, rel_path) : rel_path \in r.selected}
            ELSE PathsOf(list)
    IN  [current_workspace |-> path,
         files |-> list,
         selected_files |-> initial_selection_absolute,
         tree_nodes |-> RecomputeTree(list, initial_selection_absolute, path),
         gitignore |-> gitignore.state,
         result |-> r]

\* Opening a workspace.  The menu handler sets current_workspace; the load
\* effect then lists the files, seeds the selection and sets both signals in
\* one task that never suspends; the memo of FileTree recomputes on the
\* write of the selection.  What the signals hold afterwards:
WorkspaceLoad(path, present, gitignore) ==
    LET list == list_files(path, present)
        r == handle_workspace_opened(
                 path, get_all_workspace_files(path, present, gitignore),
                 gitignore)
        initial_selection_absolute ==
            IF r.ok THEN {Join(path, rel_path) : rel_path \in r.selected}
            ELSE {}
    IN  [current_workspace |-> path,
         files |-> list,
         selected_files |-> initial_selection_absolute,
         tree_nodes |-> RecomputeTree(list, initial_selection_absolute, path),
         gitignore |-> gitignore.state,
         result |-> r]

\* Every outcome of opening one of the workspaces, over the snapshots and
\* the .gitignore files it can be met with.
LoadOutcomes ==
    UNION { { WorkspaceLoad(path, present, gitignore) :
                present \in Snapshots(path), gitignore \in Gitignores }
            : path \in Roots }

OpenWorkspace(load) ==
    /\ current_workspace' = load.current_workspace
    /\ files' = load.files
    /\ selected_files' = load.selected_files
    /\ tree_nodes' = load.tree_nodes
    /\ last_event' = [op |-> "open", gitignore |-> load.gitignore,
                      result |-> load.result]
    /\ UNCHANGED <<giVars, ccVars, stVars>>

\* Every list a crawl of a workspace can return (fs_utils::crawl skips the
\* files it cannot read as text, and the directory may have changed).
CrawlOutcomes ==
    UNION { { [dir |-> r, list |-> list_files(r, present)] :
                present \in Snapshots(r) } : r \in Roots }

\* The re-crawl also emptying the selection, the memo recomputing on it.
OnEstimatorChange_ClearSelection(crawl) ==
    /\ crawl.dir = current_workspace
    /\ files' = crawl.list
    /\ selected_files' = {}
    /\ tree_nodes' = RecomputeTree(crawl.list, {}, current_workspace)
    /\ last_event' = [op |-> "recrawl"]
    /\ UNCHANGED current_workspace
    /\ UNCHANGED <<giVars, ccVars, stVars>>

\* on_estimator_change: the re-crawl replaces files; selected_files is not
\* written, and the memo reads no other signal, so it is not recomputed.
OnEstimatorChange(crawl) ==
    /\ crawl.dir = current_workspace
    /\ files' = crawl.list
    /\ last_event' = [op |-> "recrawl"]
    /\ UNCHANGED <<current_workspace, selected_files, tree_nodes>>
    /\ UNCHANGED <<giVars, ccVars, stVars>>

\* A write of selected_files whose memo run sees the set when all but one
\* of the paths of the write have been inserted or removed.
SetSelected_RebuildEarly(new_selection, event) ==
    LET inserted == new_selection \ selected_files
        removed == selected_files \ new_selection
        seen == IF Cardinality(inserted) >= 2
                THEN new_selection \ {CHOOSE p \in inserted : TRUE}
                ELSE IF Cardinality(removed) >= 2
                THEN new_selection \cup {CHOOSE p \in removed : TRUE}
                ELSE new_selection
    IN  /\ selected_files' = new_selection
        /\ tree_nodes' = RecomputeTree(files, seen, current_workspace)
        /\ last_event' = event
        /\ UNCHANGED <<current_workspace, files>>
        /\ UNCHANGED <<giVars, ccVars, stVars>>

\* A write of selected_files, and the memo recomputing on it.
SetSelected(new_selection, event) ==
    /\ selected_files' = new_selection
    /\ tree_nodes' = RecomputeTree(files, new_selection, current_workspace)
    /\ last_event' = event
    /\ UNCHANGED <<current_workspace, files>>
    /\ UNCHANGED <<giVars, ccVars, stVars>>

\* on_select_all inserting the paths instead of replacing the set.
OnSelectAll_Insert ==
    /\ current_workspace # None
    /\ SetSelected(selected_files \cup PathsOf(files), [op |-> "select_all"])

\* Toolbar: on_select_all / on_deselect_all (main.rs).
OnSelectAll ==
    /\ current_workspace # None
    /\ SetSelected(PathsOf(files), [op |-> "select_all"])

OnDeselectAll ==
    /\ current_workspace # None
    /\ SetSelected({}, [op |-> "deselect_all"])

\* FileTree: the Select All / Deselect All buttons (file_tree.rs).
FileTreeSelectAll ==
    /\ current_workspace # None
    /\ SetSelected(PathsOf(files), [op |-> "select_all"])

FileTreeDeselectAll ==
    /\ current_workspace # None
    /\ SetSelected({}, [op |-> "deselect_all"])

\* What a forest shows apart from which folders are open: its structure and
\* every node's selection_state.
Displayed(nodes) ==
    [i \in DOMAIN nodes |-> [nodes[i] EXCEPT !.is_expanded = FALSE]]

\* The paths a checkbox event works on: the node's own for a File, the
\* descendant_file_paths collected for a Folder.
TogglePaths(nodes, i) ==
    IF nodes[i].node_type = "File" THEN {nodes[i].path}
    ELSE LET descendant_file_paths ==
                 collect_all_file_paths_recursive(nodes, i)
         IN  {descendant_file_paths[k] : k \in DOMAIN descendant_file_paths}

\* The event before a checkbox event, kept when the two are the checking and
\* then the unchecking of one node; its own history is dropped.
Preceding(event, node, is_checked) ==
    IF /\ event.op = "toggle"
       /\ event.node_type = node.node_type
       /\ event.path = node.path
       /\ event.is_checked
       /\ ~is_checked
    THEN [event EXCEPT !.prev = [op |-> "none"]]
    ELSE [op |-> "none"]

\* FileTreeNodeDisplay: oninput of the checkbox of the node at index i.
\* last_event keeps what the handler was given, what it met (before) and the
\* event that preceded it (prev).
ToggleCheckbox(i) ==
    /\ current_workspace # None
    /\ IsRendered(tree_nodes, i)
    /\ SetSelected(oninput(selected_files, tree_nodes, i,
                           EventValue(tree_nodes[i])),
                   [op |-> "toggle",
                    node_type |-> tree_nodes[i].node_type,
                    path |-> tree_nodes[i].path,
                    is_checked |-> EventValue(tree_nodes[i]),
                    shown |-> tree_nodes[i].selection_state,
                    paths |-> TogglePaths(tree_nodes, i),
                    before |-> [selected_files |-> selected_files,
                                tree_nodes |-> Displayed(tree_nodes)],
                    prev |-> Preceding(last_event, tree_nodes[i],
                                       EventValue(tree_nodes[i]))])

\* The click also running the memo closure again.
ToggleExpanded_Recompute(i) ==
    /\ current_workspace # None
    /\ IsRendered(tree_nodes, i)
    /\ tree_nodes[i].node_type = "Folder"
    /\ LET rebuilt == RecomputeTree(files, selected_files, current_workspace)
       IN  tree_nodes' = [k \in DOMAIN rebuilt |->
                             IF k = i /\ k \in DOMAIN tree_nodes
                             THEN [rebuilt[k] EXCEPT !.is_expanded =
                                       ~tree_nodes[i].is_expanded]
                             ELSE rebuilt[k]]
    /\ UNCHANGED <<current_workspace, files, selected_files, last_event>>
    /\ UNCHANGED <<giVars, ccVars, stVars>>

\* FileTreeNodeDisplay: onclick of the row of the folder at index i.  It
\* writes the node's is_expanded signal and nothing else.
ToggleExpanded(i) ==
    /\ current_workspace # None
    /\ IsRendered(tree_nodes, i)
    /\ tree_nodes[i].node_type = "Folder"
    /\ tree_nodes' = [tree_nodes EXCEPT ![i].is_expanded = ~@]
    /\ UNCHANGED <<current_workspace, files, selected_files, last_event>>
    /\ UNCHANGED <<giVars, ccVars, stVars>>

Next ==
    \/ \E load \in LoadOutcomes : OpenWorkspace(load)
    \/ \E crawl \in CrawlOutcomes : OnEstimatorChange(crawl)
    \/ OnSelectAll
    \/ OnDeselectAll
    \/ FileTreeSelectAll
    \/ FileTreeDeselectAll
    \/ \E i \in DOMAIN tree_nodes : ToggleCheckbox(i)
    \/ \E i \in DOMAIN tree_nodes : ToggleExpanded(i)

Spec == Init /\ [][Next]_vars

(***************************************************************************)
(* The tree builder alone, on arbitrary inputs: record lists in any order, *)
(* with duplicate records, with a file and a folder of one name, and with  *)
(* files outside the workspace root.                                       *)
(***************************************************************************)

MaxBuildFiles == 3

BuildRoot == <<"w">>

BuildPaths ==
    { <<"w", "a">>, <<"w", "d">>, <<"w", "d", "b">>,
      <<"w", "d", "e", "a">>, <<"w", "d", "e", "b">>, <<"x", "a">> }

BuildInit ==
    /\ current_workspace = BuildRoot
    /\ \E ps \in SeqsUpTo(BuildPaths, MaxBuildFiles) :
          files = [i \in DOMAIN ps |-> FileInfo(ps[i])]
    /\ selected_files \in SUBSET BuildPaths
    /\ tree_nodes = <<>>
    /\ last_event = [op |-> "init"]
    /\ gi_root = None /\ gi_listing = <<>> /\ gi_state = "absent"
    /\ gi_lines = <<>> /\ gi_patterns = <<>> /\ gi_result = <<>>
    /\ cc_paths = <<>> /\ cc_files = <<>> /\ cc_result = <<>>
    /\ st_settings = DefaultSettings /\ st_tasks = <<>> /\ st_calls = <<>>

\* One run of the memo closure on the inputs drawn.
BuildTree ==
    /\ last_event.op = "init"
    /\ tree_nodes' = RecomputeTree(files, selected_files, current_workspace)
    /\ last_event' = [op |-> "built"]
    /\ UNCHANGED <<current_workspace, files, selected_files>>
    /\ UNCHANGED <<giVars, ccVars, stVars>>

BuildNext == BuildTree

SpecBuild == BuildInit /\ [][BuildNext]_vars

(***************************************************************************)
(* handle_workspace_opened alone, on every listing of a workspace and      *)
(* every .gitignore of up to MaxLines raw lines.                           *)
(***************************************************************************)

MaxLines == 2

\* Raw lines of a .gitignore: blank, comment, a pattern to be trimmed, a
\* negation, a directory pattern, wildcards, a rooted pattern, a glob that
\* does not parse.
RawLines ==
    { <<>>,
      <<" ", "\t">>,
      <<"#", "a">>,
      <<" ", "#", "a">>,
      <<"a", "#">>,
      <<" ", "d", "/", "c", " ">>,
      <<"a">>,
      <<"!", "a">>,
      <<"d", "/">>,
      <<"/", "a">>,
      <<"*">>,
      <<".", "*">>,
      <<"d", "/", "*", "*">>,
      <<"[">> }

SeedInit ==
    /\ current_workspace = None
    /\ files = <<>>
    /\ selected_files = {}
    /\ tree_nodes = <<>>
    /\ last_event = [op |-> "init"]
    /\ gi_root \in Roots
    /\ \E gitignore \in
            { [state |-> "absent", lines |-> <<>>],
              [state |-> "unreadable", lines |-> <<>>] }
            \cup { [state |-> "readable", lines |-> l] :
                     l \in SeqsUpTo(RawLines, MaxLines) } :
         /\ gi_state = gitignore.state
         /\ gi_lines = gitignore.lines
         /\ \E present \in SUBSET WorkspaceFiles(gi_root) :
              gi_listing = get_all_workspace_files(gi_root, present, gitignore)
    /\ gi_patterns = <<>>
    /\ gi_result = <<>>
    /\ cc_paths = <<>> /\ cc_files = <<>> /\ cc_result = <<>>
    /\ st_settings = DefaultSettings /\ st_tasks = <<>> /\ st_calls = <<>>

\* One call of handle_workspace_opened on the workspace drawn.
Seed ==
    /\ gi_result = <<>>
    /\ gi_result' = << handle_workspace_opened(
                          gi_root, gi_listing,
                          [state |-> gi_state, lines |-> gi_lines]) >>
    /\ gi_patterns' = IF gi_state = "readable"
                      THEN preprocess_gitignore_lines(gi_lines) ELSE <<>>
    /\ UNCHANGED <<gi_root, gi_listing, gi_state, gi_lines>>
    /\ UNCHANGED <<appVars, ccVars, stVars>>

SeedNext == Seed

SpecSeed == SeedInit /\ [][SeedNext]_vars

(***************************************************************************)
(* concat_files (fs_utils.rs).  Here a path is the sequence of its         *)
(* components as std::path yields them: a rooted path starts with the      *)
(* RootDir component "/", and "./a" starts with the CurDir component ".".  *)
(* Text is a sequence of characters; every name is one character long.     *)
(***************************************************************************)

MaxConcat == 2

RootDir == "/"
CurDir == "."

\* Path::parent: None for the root and for the empty path.
HasParent(p) == p # <<>> /\ p # <<RootDir>>

Parent(p) == SubSeq(p, 1, Len(p) - 1)

\* Path::has_root.
HasRoot(p) == p # <<>> /\ p[1] = RootDir

\* Path::strip_prefix(base).unwrap_or(path).
StripPrefix(path, base) ==
    IF StartsWith(path, base) THEN SubSeq(path, Len(base) + 1, Len(path))
    ELSE path

\* Path::to_string_lossy: the components joined by "/", after the root if any.
RECURSIVE ToStringLossy(_)
ToStringLossy(p) ==
    IF p = <<>> THEN <<>>
    ELSE IF p[1] = RootDir THEN <<"/">> \o ToStringLossy(Tail(p))
    ELSE IF Len(p) = 1 THEN <<p[1]>>
    ELSE <<p[1], "/">> \o ToStringLossy(Tail(p))

\* One pass of the for loop over paths, from paths[k]: a path that does not
\* start with parent moves parent one level up, or ends the search with the
\* empty path when parent has no parent.
RECURSIVE ForEachPath(_, _, _, _)
ForEachPath(paths, k, parent, found) ==
    IF k > Len(paths) THEN [parent |-> parent, found |-> found]
    ELSE IF StartsWith(paths[k], parent)
    THEN ForEachPath(paths, k + 1, parent, found)
    ELSE IF HasParent(parent)
    THEN ForEachPath(paths, k + 1, Parent(parent), FALSE)
    ELSE [parent |-> <<>>, found |-> TRUE]

\* while !found: passes are repeated until one ends with found set.
RECURSIVE WalkUp(_, _)
WalkUp(paths, parent) ==
    LET r == ForEachPath(paths, 1, parent, TRUE)
    IN  IF r.found THEN r.parent ELSE WalkUp(paths, r.parent)

common_parent(paths) ==
    IF paths # <<>>
    THEN WalkUp(paths, IF HasParent(paths[1]) THEN Parent(paths[1]) ELSE <<>>)
    ELSE <<>>

StartsWithDotSlash(text) == Len(text) >= 2 /\ text[1] = "." /\ text[2] = "/"

Marker == <<"@", "@", "@">>

\* The header with "./" pushed before every path that is not rooted.
Header_AlwaysDotSlash(path, parent) ==
    LET rel_path == StripPrefix(path, parent)
        text == ToStringLossy(rel_path)
    IN  Marker \o <<" ">>
        \o (IF ~HasRoot(rel_path) THEN <<".", "/">> ELSE <<>>)
        \o text \o <<" ">> \o Marker \o <<"\n", "\n">>

\* The header pushed for one path: "@@@ ", "./" when wanted, the relative
\* path, " @@@\n\n".
Header(path, parent) ==
    LET rel_path == StripPrefix(path, parent)
        text == ToStringLossy(rel_path)
    IN  Marker \o <<" ">>
        \o (IF ~HasRoot(rel_path) /\ ~StartsWithDotSlash(text)
            THEN <<".", "/">> ELSE <<>>)
        \o text \o <<" ">> \o Marker \o <<"\n", "\n">>

\* The loop over paths from paths[k] with result as built so far; a file that
\* cannot be opened or read ends the call with its error.
RECURSIVE ConcatLoop(_, _, _, _, _)
ConcatLoop(paths, k, parent, fs, result) ==
    IF k > Len(paths) THEN [ok |-> TRUE, text |-> result]
    ELSE IF ~fs[paths[k]].readable THEN [ok |-> FALSE]
    ELSE ConcatLoop(paths, k + 1, parent, fs,
                    result \o (IF k > 1 THEN <<"\n", "\n">> ELSE <<>>)
                    \o Header(paths[k], parent) \o fs[paths[k]].content)

concat_files(paths, fs) == ConcatLoop(paths, 1, common_parent(paths), fs, <<>>)

\* The paths concat_files is called with: rooted and relative ones, one of
\* them written with a leading "./".
ConcatPaths ==
    { <<"/", "w", "a">>, <<"/", "w", "d", "b">>, <<"/", "w", "d", "c">>,
      <<"/", "v", "a">>, <<"a">>, <<"d", "b">>, <<".", "a">> }

\* What opening and reading a file gives: an error, or its content.
FileStates ==
    { [readable |-> FALSE, content |-> <<>>] }
    \cup { [readable |-> TRUE, content |-> c] :
             c \in { <<>>, <<"x">>, <<"y", "\n">> } }

ConcatInit ==
    /\ current_workspace = None
    /\ files = <<>>
    /\ selected_files = {}
    /\ tree_nodes = <<>>
    /\ last_event = [op |-> "init"]
    /\ gi_root = None /\ gi_listing = <<>> /\ gi_state = "absent"
    /\ gi_lines = <<>> /\ gi_patterns = <<>> /\ gi_result = <<>>
    /\ cc_paths \in SeqsUpTo(ConcatPaths, MaxConcat)
    /\ cc_files \in [{cc_paths[i] : i \in DOMAIN cc_paths} -> FileStates]
    /\ cc_result = <<>>
    /\ st_settings = DefaultSettings /\ st_tasks = <<>> /\ st_calls = <<>>

\* One call of concat_files on the paths and files drawn.
Concat ==
    /\ cc_result = <<>>
    /\ cc_result' = << concat_files(cc_paths, cc_files) >>
    /\ UNCHANGED <<cc_paths, cc_files>>
    /\ UNCHANGED <<appVars, giVars, stVars>>

ConcatNext == Concat

SpecConcat == ConcatInit /\ [][ConcatNext]_vars

(***************************************************************************)
(* Settings (settings.rs): the list of recent workspaces.                  *)
(***************************************************************************)

MaxCalls == 6

\* The workspaces that get opened: one more than the list keeps.
RecentPaths == { <<"w">>, <<"v">>, <<"u">>, <<"t">>, <<"s">>, <<"r">> }

\* Vec::remove(pos), positions counted from 1.
RemoveAt(s, pos) == SubSeq(s, 1, pos - 1) \o SubSeq(s, pos + 1, Len(s))

\* Settings::add_recent_workspace without the removal of the old entry.
add_recent_workspace_NoRemove(self, path) ==
    LET inserted == <<path>> \o self.recent_workspaces
    IN  [self EXCEPT !.recent_workspaces =
            IF Len(inserted) > 5
            THEN SubSeq(inserted, 1, Len(inserted) - 1) ELSE inserted]

\* Settings::add_recent_workspace: remove the path if present, insert it at
\* the front, pop the last entry when there are more than 5.
add_recent_workspace(self, path) ==
    LET found == {i \in DOMAIN self.recent_workspaces :
                     self.recent_workspaces[i] = path}
        removed == IF found # {}
                   THEN RemoveAt(self.recent_workspaces, Min(found))
                   ELSE self.recent_workspaces
        inserted == <<path>> \o removed
    IN  [self EXCEPT !.recent_workspaces =
            IF Len(inserted) > 5
            THEN SubSeq(inserted, 1, Len(inserted) - 1) ELSE inserted]

\* Settings::set_token_estimator.
set_token_estimator(self, estimator) ==
    [self EXCEPT !.token_estimator = estimator]

RecentInit ==
    /\ current_workspace = None
    /\ files = <<>>
    /\ selected_files = {}
    /\ tree_nodes = <<>>
    /\ last_event = [op |-> "init"]
    /\ gi_root = None /\ gi_listing = <<>> /\ gi_state = "absent"
    /\ gi_lines = <<>> /\ gi_patterns = <<>> /\ gi_result = <<>>
    /\ cc_paths = <<>> /\ cc_files = <<>> /\ cc_result = <<>>
    /\ st_settings = DefaultSettings /\ st_tasks = <<>> /\ st_calls = <<>>

\* One call of add_recent_workspace on the Settings value.
AddRecent(path) ==
    /\ Len(st_calls) < MaxCalls
    /\ st_settings' = add_recent_workspace(st_settings, path)
    /\ st_calls' = Append(st_calls, path)
    /\ UNCHANGED st_tasks
    /\ UNCHANGED <<appVars, giVars, ccVars>>

RecentNext == \E path \in RecentPaths : AddRecent(path)

SpecRecent == RecentInit /\ [][RecentNext]_vars

(***************************************************************************)
(* The checkbox handler alone, on the tree built from arbitrary inputs: a  *)
(* file and a folder of one path, and files outside the root, included.    *)
(***************************************************************************)

ToggleInit ==
    /\ current_workspace = BuildRoot
    /\ \E present \in SUBSET BuildPaths :
          /\ Cardinality(present) <= MaxBuildFiles
          /\ files = [i \in DOMAIN WalkOrder(present) |->
                         FileInfo(WalkOrder(present)[i])]
    /\ selected_files \in SUBSET BuildPaths
    /\ tree_nodes = RecomputeTree(files, selected_files, current_workspace)
    /\ last_event = [op |-> "built"]
    /\ gi_root = None /\ gi_listing = <<>> /\ gi_state = "absent"
    /\ gi_lines = <<>> /\ gi_patterns = <<>> /\ gi_result = <<>>
    /\ cc_paths = <<>> /\ cc_files = <<>> /\ cc_result = <<>>
    /\ st_settings = DefaultSettings /\ st_tasks = <<>> /\ st_calls = <<>>

\* Rows are clicked open, then one checkbox is clicked.
ExpandBefore(i) == last_event.op = "built" /\ ToggleExpanded(i)

ToggleOnce(i) == last_event.op = "built" /\ ToggleCheckbox(i)

ToggleNext ==
    \/ \E i \in DOMAIN tree_nodes : ExpandBefore(i)
    \/ \E i \in DOMAIN tree_nodes : ToggleOnce(i)

SpecToggle == ToggleInit /\ [][ToggleNext]_vars

(***************************************************************************)
(* The settings signal of App and the tasks that change it (main.rs,       *)
(* components/toolbar.rs): each task reads the signal, changes its copy,   *)
(* awaits save() and then sets the signal to the copy.                     *)
(***************************************************************************)

MaxSettingsCalls == 3

\* The changes a menu event or a toolbar choice asks for.
SettingsActions ==
    { [op |-> "add_recent_workspace", arg |-> <<"w">>],
      [op |-> "add_recent_workspace", arg |-> <<"v">>],
      [op |-> "set_token_estimator", arg |-> "Cl100k"] }

\* The change a task makes to its copy.
ApplyAction(self, action) ==
    IF action.op = "add_recent_workspace"
    THEN add_recent_workspace(self, action.arg)
    ELSE set_token_estimator(self, action.arg)

SettingsInit == RecentInit

\* A task is spawned and runs up to save().await: it holds the changed copy
\* of what the signal held.
BeginTask(action) ==
    /\ Len(st_calls) < MaxSettingsCalls
    /\ st_tasks' = Append(st_tasks, ApplyAction(st_settings, action))
    /\ st_calls' = Append(st_calls, action)
    /\ UNCHANGED st_settings
    /\ UNCHANGED <<appVars, giVars, ccVars>>

\* save() of the k-th waiting task returns (with Ok or Err) and the task
\* sets the signal to its copy.
FinishTask(k) ==
    /\ k \in DOMAIN st_tasks
    /\ st_settings' = st_tasks[k]
    /\ st_tasks' = RemoveAt(st_tasks, k)
    /\ UNCHANGED st_calls
    /\ UNCHANGED <<appVars, giVars, ccVars>>

SettingsNext ==
    \/ \E action \in SettingsActions : BeginTask(action)
    \/ \E k \in DOMAIN st_tasks : FinishTask(k)

SpecSettings == SettingsInit /\ [][SettingsNext]_vars

(***************************************************************************)
(* CopyButton (components/copy_button.rs): handle_copy collects the paths  *)
(* of the SelectionSet by iterating the HashSet and hands them to          *)
(* concat_files.  The order in which a HashSet yields its elements is not  *)
(* specified: it is fixed for one HashSet value and its clones, and any    *)
(* order for a HashSet that is built anew, also from the same elements.    *)
(* cc_paths holds the order of the HashSet the signal holds now.           *)
(***************************************************************************)

MaxCopies == 2

\* The orders in which a HashSet holding the paths S can yield them.
IterationOrders(S) ==
    {o \in [1..Cardinality(S) -> S] :
        \A i, j \in 1..Cardinality(S) : o[i] = o[j] => i = j}

\* A PathBuf of the SelectionSet as the components std::path yields.
AsComponents(path) == <<RootDir>> \o path

CopyInit ==
    /\ current_workspace = <<"w">>
    /\ files = <<>>
    /\ selected_files \in
          {S \in SUBSET {Join(<<"w">>, rel) : rel \in WorkspaceFiles(<<"w">>)} :
              S # {} /\ Cardinality(S) <= MaxConcat}
    /\ tree_nodes = <<>>
    /\ last_event = [op |-> "init"]
    /\ gi_root = None /\ gi_listing = <<>> /\ gi_state = "absent"
    /\ gi_lines = <<>> /\ gi_patterns = <<>> /\ gi_result = <<>>
    /\ cc_paths \in IterationOrders({AsComponents(p) : p \in selected_files})
    /\ cc_files \in [{AsComponents(p) : p \in selected_files} -> FileStates]
    /\ cc_result = <<>>
    /\ st_settings = DefaultSettings /\ st_tasks = <<>> /\ st_calls = <<>>

\* handle_copy: paths = selected_files.iter().cloned().collect(), then
\* concat_files(&paths); the text (or the error) is what on_copy is given.
HandleCopy ==
    /\ Len(cc_result) < MaxCopies
    /\ cc_result' = Append(cc_result, concat_files(cc_paths, cc_files))
    /\ UNCHANGED <<cc_paths, cc_files>>
    /\ UNCHANGED <<appVars, giVars, stVars>>

\* A handler stores a newly built HashSet with the same paths in the signal
\* (on_select_all collects the paths of files into a new set).
StoreSameSelection ==
    /\ cc_paths' \in IterationOrders({AsComponents(p) : p \in selected_files})
    /\ UNCHANGED <<cc_files, cc_result>>
    /\ UNCHANGED <<appVars, giVars, stVars>>

CopyNext == HandleCopy \/ StoreSameSelection

SpecCopy == CopyInit /\ [][CopyNext]_vars

(***************************************************************************)
(* Properties.                                                             *)
(***************************************************************************)

States == {"Selected", "NotSelected", "PartiallySelected"}

\* The immediate children of the node at index i of a forest.
ChildSet(nodes, i) == {j \in DOMAIN nodes : nodes[j].parent = nodes[i].id}

\* The rule of C1 for one folder of a forest.
FolderRule(nodes, i) ==
    LET kids == ChildSet(nodes, i)
        st == nodes[i].selection_state
    IN  /\ st \in States
        /\ st = "Selected" <=>
              /\ kids # {}
              /\ \A j \in kids : nodes[j].selection_state = "Selected"
        /\ st = "NotSelected" <=>
              \A j \in kids : nodes[j].selection_state = "NotSelected"

\* C1: after build_tree_from_file_info and the bottom-up aggregation, every
\* Folder node is Selected iff it has a child and all its immediate children
\* are Selected, NotSelected iff none of its immediate children is Selected
\* or PartiallySelected, and PartiallySelected otherwise.
C1_FolderAggregation ==
    last_event.op = "built" =>
        \A i \in DOMAIN tree_nodes :
            tree_nodes[i].node_type = "Folder" => FolderRule(tree_nodes, i)

\* A built forest where a folder is PartiallySelected with a Selected folder
\* and a NotSelected node among its children.
C1_Witness ==
    /\ last_event.op = "built"
    /\ \E i, j, k \in DOMAIN tree_nodes :
          /\ tree_nodes[i].node_type = "Folder"
          /\ tree_nodes[i].selection_state = "PartiallySelected"
          /\ j \in ChildSet(tree_nodes, i) /\ k \in ChildSet(tree_nodes, i)
          /\ tree_nodes[j].node_type = "Folder"
          /\ tree_nodes[j].selection_state = "Selected"
          /\ tree_nodes[k].selection_state = "NotSelected"

\* C2: in every built tree a File node is Selected iff its absolute path is
\* in the SelectionSet given to the build and NotSelected otherwise; it is
\* never PartiallySelected.
C2_FileStateIsMembership ==
    \A i \in DOMAIN tree_nodes :
        tree_nodes[i].node_type = "File" =>
            tree_nodes[i].selection_state =
                IF tree_nodes[i].path \in selected_files
                THEN "Selected" ELSE "NotSelected"

\* A built forest with a Selected file and a NotSelected file in one folder,
\* under a SelectionSet that also holds a path no record has.
C2_Witness ==
    /\ last_event.op = "built"
    /\ \E i, j \in DOMAIN tree_nodes :
          /\ tree_nodes[i].node_type = "File"
          /\ tree_nodes[j].node_type = "File"
          /\ tree_nodes[i].parent = tree_nodes[j].parent
          /\ tree_nodes[i].parent # -1
          /\ tree_nodes[i].selection_state = "Selected"
          /\ tree_nodes[j].selection_state = "NotSelected"
    /\ selected_files \ PathsOf(files) # {}

\* C3: after any sequence of toggles, select-all, deselect-all, workspace
\* opens and re-crawls, the displayed forest is the forest built from the
\* current file list, the current SelectionSet and the current workspace
\* root: no node's selection_state or structure is stale.
C3_DisplayedForestIsRebuilt ==
    Displayed(tree_nodes) =
        Displayed(RecomputeTree(files, selected_files, current_workspace))

\* The indices of the nodes of a forest with this path and type.
NodesAt(nodes, path, node_type) ==
    {i \in DOMAIN nodes :
        nodes[i].path = path /\ nodes[i].node_type = node_type}

\* C4: after a Folder node is toggled to checked and the tree is rebuilt,
\* every descendant File path of the folder is in the SelectionSet and the
\* folder is Selected; after it is toggled to unchecked, none of them is in
\* the SelectionSet and the folder is NotSelected.
C4_FolderToggleComplete ==
    (last_event.op = "toggle" /\ last_event.node_type = "Folder") =>
        IF last_event.is_checked
        THEN /\ last_event.paths \subseteq selected_files
             /\ \A i \in NodesAt(tree_nodes, last_event.path, "Folder") :
                    tree_nodes[i].selection_state = "Selected"
        ELSE /\ last_event.paths \cap selected_files = {}
             /\ \A i \in NodesAt(tree_nodes, last_event.path, "Folder") :
                    tree_nodes[i].selection_state = "NotSelected"

WorkspaceFilePaths ==
    UNION { {Join(r, rel) : rel \in WorkspaceFiles(r) \cup {<<".gitignore">>}}
            : r \in Roots }

\* The nodes below the node at index i, by the parent links.
RECURSIVE IsBelow(_, _, _)
IsBelow(nodes, j, i) ==
    /\ nodes[j].parent # -1
    /\ \/ nodes[j].parent = nodes[i].id
       \/ \E k \in DOMAIN nodes :
             /\ nodes[k].id = nodes[j].parent
             /\ IsBelow(nodes, k, i)

DescendantFilePaths(nodes, i) ==
    {nodes[j].path : j \in {k \in DOMAIN nodes :
                               /\ nodes[k].node_type = "File"
                               /\ IsBelow(nodes, k, i)}}

\* C6: in every reachable state every element of the SelectionSet is the
\* path of a file, never of a folder; a toggle on a Folder node inserts or
\* removes only the paths of its descendant File nodes and never the
\* folder's own path.
C6_OnlyFilePaths ==
    /\ selected_files \subseteq WorkspaceFilePaths
    /\ \A i \in DOMAIN tree_nodes :
          tree_nodes[i].node_type = "Folder" =>
              tree_nodes[i].path \notin selected_files
    /\ (last_event.op = "toggle" /\ last_event.node_type = "Folder") =>
          LET was == last_event.before.selected_files
              shown == last_event.before.tree_nodes
              changed == (selected_files \ was) \cup (was \ selected_files)
          IN  /\ \A i \in NodesAt(shown, last_event.path, "Folder") :
                     changed \subseteq DescendantFilePaths(shown, i)
              /\ NodesAt(shown, last_event.path, "Folder") # {}
              /\ last_event.path \notin changed

\* A folder with a file and a subfolder below it has been checked, and the
\* paths of its files went into a SelectionSet that held another path.
C6_Witness ==
    /\ last_event.op = "toggle"
    /\ last_event.node_type = "Folder"
    /\ last_event.is_checked
    /\ Cardinality(selected_files \ last_event.before.selected_files) >= 2
    /\ last_event.before.selected_files # {}
    /\ \E i \in DOMAIN tree_nodes :
          /\ tree_nodes[i].node_type = "Folder"
          /\ tree_nodes[i].depth = 1

\* C7: select_all sets the SelectionSet to exactly the paths of the current
\* file list, and every node of the rebuilt tree is Selected; deselect_all
\* sets it to the empty set, and every node of the rebuilt tree is
\* NotSelected.
C7_SelectAllDeselectAll ==
    /\ last_event.op = "select_all" =>
          /\ selected_files = PathsOf(files)
          /\ \A i \in DOMAIN tree_nodes :
                 tree_nodes[i].selection_state = "Selected"
    /\ last_event.op = "deselect_all" =>
          /\ selected_files = {}
          /\ \A i \in DOMAIN tree_nodes :
                 tree_nodes[i].selection_state = "NotSelected"

\* select_all has run on a list of two files, one of them in a subfolder.
C7_Witness ==
    /\ last_event.op = "select_all"
    /\ Len(files) >= 2
    /\ \E i \in DOMAIN tree_nodes :
          /\ tree_nodes[i].node_type = "Folder"
          /\ tree_nodes[i].depth = 1
          /\ tree_nodes[i].selection_state = "Selected"

\* C8: with no .gitignore at the workspace root, handle_workspace_opened
\* returns an empty selection whatever files the workspace holds, and the
\* SelectionSet after the workspace is opened is empty.
C8_NoGitignoreSelectsNothing ==
    (last_event.op = "open" /\ last_event.gitignore = "absent") =>
        /\ last_event.result = [ok |-> TRUE, selected |-> {}]
        /\ selected_files = {}

\* A workspace of two files and no .gitignore has been opened.
C8_Witness ==
    /\ last_event.op = "open"
    /\ last_event.gitignore = "absent"
    /\ Len(files) >= 2

\* The listed paths that is_file_ignored does not report as ignored.
NotIgnored(listing, raw_lines, root) ==
    {listing[i] : i \in {k \in DOMAIN listing :
        ~is_file_ignored(listing[k], preprocess_gitignore_lines(raw_lines),
                         root)}}

C10_UnreadableGitignoreFails ==
    (last_event.op = "open" /\ last_event.gitignore = "unreadable") =>
        /\ last_event.result = [ok |-> FALSE]
        /\ selected_files = {}

\* A workspace of two files whose .gitignore cannot be read has been opened.
C10_Witness ==
    /\ last_event.op = "open"
    /\ last_event.gitignore = "unreadable"
    /\ Len(files) >= 2

\* A processed pattern matches the path itself or one of its parent
\* directories.
MatchesPathOrParent(pattern_str, comps) ==
    LET g == AddLine(pattern_str)
    IN  /\ g.kind = "glob"
        /\ \/ ~g.is_only_dir /\ GlobMatch(g.segs, comps)
           \/ \E k \in 1..(Len(comps) - 1) :
                 GlobMatch(g.segs, SubSeq(comps, 1, k))

\* The verdict of the last pattern of the list that matches the path or one
\* of its parent directories: ignored unless that pattern is a negation, not
\* ignored when no pattern matches.
LastMatchIgnores(processed_patterns, comps) ==
    LET hits == {i \in DOMAIN processed_patterns :
                    MatchesPathOrParent(processed_patterns[i], comps)}
    IN  /\ hits # {}
        /\ LET last == CHOOSE i \in hits : \A j \in hits : j <= i
           IN  ~AddLine(processed_patterns[last]).is_whitelist

\* C11: for any relative path and any ordered pattern list, is_file_ignored
\* is decided by the last pattern in list order that matches the path or one
\* of its parent directories: ignored iff that pattern is not a negation,
\* not ignored if no pattern matches.
C11_LastMatchingPatternDecides ==
    (gi_result # <<>> /\ gi_state = "readable") =>
        \A i \in DOMAIN gi_listing :
            (gi_listing[i] \notin gi_result[1].selected)
                <=> LastMatchIgnores(preprocess_gitignore_lines(gi_lines),
                                     gi_listing[i])

\* t is the line l without its leading and trailing whitespace.
IsTrimOf(t, l) ==
    \E i, j \in 0..Len(l) :
        /\ i <= j
        /\ t = SubSeq(l, i + 1, j)
        /\ \A k \in 1..i : l[k] \in {" ", "\t"}
        /\ \A k \in (j + 1)..Len(l) : l[k] \in {" ", "\t"}
        /\ t # <<>> => (t[1] \notin {" ", "\t"} /\ t[Len(t)] \notin {" ", "\t"})

\* The lines that are neither empty after trimming nor comments: those with
\* a first non-whitespace character other than '#'.
EffectiveLines(raw_lines) ==
    {i \in DOMAIN raw_lines :
        \E k \in DOMAIN raw_lines[i] :
            /\ raw_lines[i][k] \notin {" ", "\t"}
            /\ \A m \in 1..(k - 1) : raw_lines[i][m] \in {" ", "\t"}
            /\ raw_lines[i][k] # "#"}

\* C12: preprocess_gitignore_lines returns the lines trimmed of leading and
\* trailing whitespace, without exactly those that are empty after trimming
\* or whose first non-whitespace character is '#'; every other line is kept,
\* in the original relative order.
C12_PreprocessKeepsEffectiveLines ==
    (gi_result # <<>> /\ gi_state = "readable") =>
        LET kept == EffectiveLines(gi_lines)
        IN  /\ Len(gi_patterns) = Cardinality(kept)
            /\ \A i \in kept :
                   IsTrimOf(gi_patterns[Cardinality({j \in kept : j <= i})],
                            gi_lines[i])

\* Two raw lines went in, one of them blank or a comment, and the other came
\* out shorter than it was.
C12_Witness ==
    /\ gi_result # <<>>
    /\ gi_state = "readable"
    /\ Len(gi_lines) = 2
    /\ Len(gi_patterns) = 1
    /\ gi_patterns[1] \notin {gi_lines[1], gi_lines[2]}

\* A processed pattern that GitignoreBuilder::add_line accepts.
IsWellFormed(pattern_str) == AddLine(pattern_str).kind # "error"

C14_UniqueSiblings ==
    last_event.op = "built" =>
        \A i, j \in DOMAIN tree_nodes :
            (/\ i # j
             /\ tree_nodes[i].parent = tree_nodes[j].parent
             /\ tree_nodes[i].name = tree_nodes[j].name)
                => tree_nodes[i].node_type # tree_nodes[j].node_type

\* C15: in every forest built by one call with N nodes in total, the ids are
\* pairwise distinct and exactly 0..N-1, given in creation order, and every
\* folder's id is smaller than the id of each of its descendants.
C15_IdsInCreationOrder ==
    last_event.op = "built" =>
        /\ \A i \in DOMAIN tree_nodes : tree_nodes[i].id = i - 1
        /\ \A i, j \in DOMAIN tree_nodes :
               i # j => tree_nodes[i].id # tree_nodes[j].id
        /\ \A i, j \in DOMAIN tree_nodes :
               (tree_nodes[i].node_type = "Folder" /\ IsBelow(tree_nodes, j, i))
                   => tree_nodes[i].id < tree_nodes[j].id

\* A built forest of five nodes or more with a folder inside a folder and a
\* file created before a folder.
C15_Witness ==
    /\ last_event.op = "built"
    /\ Len(tree_nodes) >= 5
    /\ \E i, j \in DOMAIN tree_nodes :
          /\ tree_nodes[i].node_type = "Folder"
          /\ tree_nodes[i].depth = 1
          /\ tree_nodes[j].node_type = "File"
          /\ tree_nodes[j].id < tree_nodes[i].id

\* The directories that are ancestors of a path: its proper prefixes, the
\* empty path (the current directory) being one only of a relative path.
C16_Ancestors(p) ==
    {SubSeq(p, 1, k) : k \in (IF HasRoot(p) THEN 1 ELSE 0)..(Len(p) - 1)}

C16_CommonAncestors ==
    {d \in C16_Ancestors(cc_paths[1]) :
        \A i \in DOMAIN cc_paths : d \in C16_Ancestors(cc_paths[i])}

C16_Deepest ==
    CHOOSE d \in C16_CommonAncestors :
        \A e \in C16_CommonAncestors : Len(e) <= Len(d)

\* The components of a relative path written with "/" between them.
C16_Written(rel) ==
    [j \in 1..(2 * Len(rel) - 1) |->
        IF j % 2 = 1 THEN rel[(j + 1) \div 2] ELSE "/"]

C16_Rel(i) ==
    LET rel == SubSeq(cc_paths[i], Len(C16_Deepest) + 1, Len(cc_paths[i]))
        text == C16_Written(rel)
    IN  IF Len(text) >= 2 /\ <<text[1], text[2]>> = <<".", "/">> THEN text
        ELSE <<".", "/">> \o text

C16_Block(i) ==
    <<"@", "@", "@", " ">> \o C16_Rel(i) \o <<" ", "@", "@", "@">>
    \o <<"\n", "\n">> \o cc_files[cc_paths[i]].content

RECURSIVE C16_Blocks(_)
C16_Blocks(n) ==
    IF n = 1 THEN C16_Block(1)
    ELSE C16_Blocks(n - 1) \o <<"\n", "\n">> \o C16_Block(n)

C16_Applies ==
    /\ cc_result # <<>>
    /\ Len(cc_paths) >= 1
    /\ \A i \in DOMAIN cc_paths : cc_files[cc_paths[i]].readable
    /\ C16_CommonAncestors # {}

\* C16: for n >= 1 readable paths that have a common ancestor directory,
\* concat_files returns block_1, two newlines, ..., block_n and nothing after
\* it, where block_i is "@@@ " rel_i " @@@", two newlines and the content of
\* file i, and rel_i is path_i relative to the deepest common ancestor,
\* prefixed with "./" unless it already starts with "./".
C16_ConcatFormat ==
    C16_Applies =>
        cc_result[1] = [ok |-> TRUE, text |-> C16_Blocks(Len(cc_paths))]

\* Two distinct readable files two and three levels below the root, the
\* second one ending with a newline, have been concatenated.
C16_Witness ==
    /\ C16_Applies
    /\ cc_paths = << <<"/", "w", "a">>, <<"/", "w", "d", "b">> >>
    /\ cc_files[cc_paths[2]].content = <<"y", "\n">>
    /\ cc_files[cc_paths[1]].content = <<"x">>
    /\ cc_result[1].ok

\* The SelectionSet a Folder toggle leaves when the whole batch is applied.
C17_WholeBatch ==
    IF last_event.is_checked
    THEN last_event.before.selected_files \cup last_event.paths
    ELSE last_event.before.selected_files \ last_event.paths

C19_WithFolderStates(nodes, s) ==
    [i \in DOMAIN nodes |->
        IF nodes[i].node_type = "Folder"
        THEN [nodes[i] EXCEPT !.selection_state = s]
        ELSE nodes[i]]

\* C19: converting a forest that is already aggregated gives the same
\* forest, and so does converting it after every Folder's state has been
\* overwritten by any one state: the result depends on the File nodes'
\* states only.
C19_AggregationIdempotent ==
    last_event.op = "built" =>
        /\ convert_blueprint_to_file_tree_node_recursive(tree_nodes)
               = tree_nodes
        /\ \A s \in States :
               convert_blueprint_to_file_tree_node_recursive(
                   C19_WithFolderStates(tree_nodes, s)) = tree_nodes

\* A built forest with a PartiallySelected folder that holds a folder which
\* is Selected or NotSelected.
C19_Witness ==
    /\ last_event.op = "built"
    /\ \E i, k \in DOMAIN tree_nodes :
          /\ tree_nodes[i].node_type = "Folder"
          /\ tree_nodes[k].node_type = "Folder"
          /\ tree_nodes[k].parent = tree_nodes[i].id
          /\ tree_nodes[i].selection_state = "PartiallySelected"
          /\ tree_nodes[k].selection_state # "PartiallySelected"

\* The file list and the SelectionSet are those of a fresh load of the
\* current workspace, for some content of its directory and .gitignore.
C20_IsFreshLoad ==
    \E load \in LoadOutcomes :
        /\ load.current_workspace = current_workspace
        /\ load.files = files
        /\ load.selected_files = selected_files

\* C20 as stated: once a workspace has been opened or re-crawled, the file
\* list and the SelectionSet are those of a fresh start, with no path of the
\* previous workspace and no earlier toggle left in the SelectionSet.
C20_NothingCarriedOver ==
    last_event.op \in {"open", "recrawl"} =>
        /\ C20_IsFreshLoad
        /\ \A p \in selected_files : StartsWith(p, current_workspace)

\* C20, amended: once a workspace has been opened the file list and the
\* SelectionSet are those of a fresh load, the SelectionSet being the seed
\* the load computed (empty when it failed) and holding only paths below the
\* new root; a re-crawl leaves the SelectionSet exactly as it was.
C20_OpenStartsFreshRecrawlKeeps ==
    /\ [](last_event.op = "open" =>
             /\ C20_IsFreshLoad
             /\ selected_files =
                    (IF last_event.result.ok
                     THEN {Join(current_workspace, rel) :
                             rel \in last_event.result.selected}
                     ELSE {})
             /\ \A p \in selected_files : StartsWith(p, current_workspace))
    /\ [][last_event'.op = "recrawl" =>
             /\ selected_files' = selected_files
             /\ current_workspace' = current_workspace]_vars

\* A re-crawl has left a SelectionSet that no fresh load of the directory as
\* crawled could have seeded.
C20_Witness ==
    /\ last_event.op = "recrawl"
    /\ selected_files # {}
    /\ ~C20_IsFreshLoad

\* C21: a workspace open that meets an I/O error (here: the .gitignore
\* cannot be read, the only error the load task can be handed) leaves the
\* file list, the SelectionSet and the tree as they were before it, or, when
\* it is the very first open, shows the workspace with zero files.
C21_FailedOpenAborts ==
    [][\A load \in LoadOutcomes :
          (OpenWorkspace(load) /\ ~load.result.ok) =>
             IF current_workspace = None
             THEN files' = <<>> /\ selected_files' = {} /\ tree_nodes' = <<>>
             ELSE /\ files' = files
                  /\ selected_files' = selected_files
                  /\ tree_nodes' = tree_nodes
      ]_<<files, selected_files, tree_nodes>>

\* The File nodes of a forest.
C22_FileNodes == {i \in DOMAIN tree_nodes : tree_nodes[i].node_type = "File"}

\* C22: in the forest built from any list of records, duplicates included,
\* the paths of the File nodes are exactly the distinct paths of the records
\* and no two File nodes have the same path.
C22_EveryFileExactlyOnce ==
    last_event.op = "built" =>
        /\ {tree_nodes[i].path : i \in C22_FileNodes} = PathsOf(files)
        /\ \A i, j \in C22_FileNodes :
               tree_nodes[i].path = tree_nodes[j].path => i = j

\* A forest built from a list that holds one record twice and a record
\* outside the workspace root.
C22_Witness ==
    /\ last_event.op = "built"
    /\ \E i, j \in DOMAIN files : i # j /\ files[i] = files[j]
    /\ \E i \in DOMAIN files : ~StartsWith(files[i].path, current_workspace)
    /\ Cardinality(C22_FileNodes) >= 2

\* C23: in a freshly built tree is_expanded is TRUE exactly for the Folder
\* nodes of depth 0, and these are exactly the Folder nodes at the root of
\* the forest; every deeper folder and every File node has it FALSE.
C23_OnlyRootFoldersExpanded ==
    last_event.op = "built" =>
        \A i \in DOMAIN tree_nodes :
            /\ tree_nodes[i].is_expanded <=>
                   (tree_nodes[i].node_type = "Folder"
                    /\ tree_nodes[i].depth = 0)
            /\ tree_nodes[i].node_type = "Folder" =>
                   (tree_nodes[i].depth = 0 <=> tree_nodes[i].parent = -1)

\* A built forest with a root folder, a folder inside it and a File node at
\* the root level.
C23_Witness ==
    /\ last_event.op = "built"
    /\ \E i, j, k \in DOMAIN tree_nodes :
          /\ tree_nodes[i].node_type = "Folder" /\ tree_nodes[i].parent = -1
          /\ tree_nodes[j].node_type = "Folder"
          /\ tree_nodes[j].parent = tree_nodes[i].id
          /\ tree_nodes[k].node_type = "File" /\ tree_nodes[k].parent = -1

\* The position of the last call that added path p (0: never added).
C24_LastAdded(p) ==
    LET at == {k \in DOMAIN st_calls : st_calls[k] = p}
    IN  IF at = {} THEN 0 ELSE CHOOSE k \in at : \A m \in at : m <= k

\* The paths added so far that fewer than 5 other paths were added after.
C24_Kept ==
    {p \in RecentPaths :
        /\ C24_LastAdded(p) > 0
        /\ Cardinality({q \in RecentPaths :
                           C24_LastAdded(q) > C24_LastAdded(p)}) < 5}

\* C24: after any sequence of add_recent_workspace calls from the empty
\* list, the list has no path twice and at most 5 entries, starts with the
\* path added last, and holds the 5 most recently added paths, a path
\* added later standing before a path added earlier.
C24_RecentListIsMru ==
    LET list == st_settings.recent_workspaces
    IN  /\ Len(list) <= 5
        /\ \A i, j \in DOMAIN list : list[i] = list[j] => i = j
        /\ st_calls # <<>> => list # <<>> /\ list[1] = Last(st_calls)
        /\ {list[i] : i \in DOMAIN list} = C24_Kept
        /\ \A i, j \in DOMAIN list :
               i < j => C24_LastAdded(list[i]) > C24_LastAdded(list[j])

\* Six different paths have been added: the list is full and the path
\* added first has been dropped from it.
C24_Witness ==
    /\ Cardinality({st_calls[k] : k \in DOMAIN st_calls}) = 6
    /\ Len(st_settings.recent_workspaces) = 5
    /\ \A i \in DOMAIN st_settings.recent_workspaces :
          st_settings.recent_workspaces[i] # st_calls[1]

\* C25: in a built and aggregated forest every Folder node has a File node
\* below it, and it is Selected iff all the paths of the File nodes below it
\* are in the SelectionSet, NotSelected iff none is, and PartiallySelected
\* iff some but not all are.
C25_FolderStateFromDescendants ==
    last_event.op = "built" =>
        \A i \in DOMAIN tree_nodes :
            tree_nodes[i].node_type = "Folder" =>
                LET below == DescendantFilePaths(tree_nodes, i)
                    st == tree_nodes[i].selection_state
                IN  /\ below # {}
                    /\ st = "Selected" <=> below \subseteq selected_files
                    /\ st = "NotSelected" <=> below \cap selected_files = {}
                    /\ st = "PartiallySelected" <=>
                           /\ below \cap selected_files # {}
                           /\ ~(below \subseteq selected_files)

\* A built forest where a PartiallySelected folder holds a Selected folder
\* and has a File node below it whose path is not selected.
C25_Witness ==
    /\ last_event.op = "built"
    /\ \E i, j \in DOMAIN tree_nodes :
          /\ tree_nodes[i].node_type = "Folder"
          /\ tree_nodes[j].node_type = "Folder"
          /\ tree_nodes[j].parent = tree_nodes[i].id
          /\ tree_nodes[i].selection_state = "PartiallySelected"
          /\ tree_nodes[j].selection_state = "Selected"
          /\ DescendantFilePaths(tree_nodes, i) \ selected_files # {}

\* The paths whose membership the last toggle changed.
C26_Changed ==
    (selected_files \ last_event.before.selected_files)
    \cup (last_event.before.selected_files \ selected_files)

\* The paths the last toggle may change: the File's own, or those of the
\* File nodes below the Folder in the tree the checkbox was shown in.
C26_Allowed ==
    IF last_event.node_type = "File" THEN {last_event.path}
    ELSE UNION {DescendantFilePaths(last_event.before.tree_nodes, i) :
                  i \in NodesAt(last_event.before.tree_nodes,
                                last_event.path, "Folder")}

\* C26: a toggle changes the membership of no path other than the toggled
\* File's, or those of the File nodes below the toggled Folder; a File that
\* is a sibling of the Folder and has its name and path is left alone.
C26_ToggleChangesOnlyItsPaths ==
    last_event.op = "toggle" => C26_Changed \subseteq C26_Allowed

\* A Folder was toggled and changed the SelectionSet, while a File node with
\* the Folder's own path stands in the same tree.
C26_Witness ==
    /\ last_event.op = "toggle" /\ last_event.node_type = "Folder"
    /\ C26_Changed # {}
    /\ NodesAt(last_event.before.tree_nodes, last_event.path, "File") # {}

\* C27: once a workspace open has completed, every path in the SelectionSet
\* is the path of a record of the file list and of a File node of the
\* displayed tree.
C27_SeedIsDisplayed ==
    last_event.op = "open" =>
        /\ selected_files \subseteq PathsOf(files)
        /\ selected_files \subseteq
               {tree_nodes[i].path :
                  i \in {k \in DOMAIN tree_nodes :
                            tree_nodes[k].node_type = "File"}}

\* A step of one of the handlers that change the selection.
C28_SelectionChange ==
    \/ OnSelectAll \/ OnDeselectAll
    \/ FileTreeSelectAll \/ FileTreeDeselectAll
    \/ \E i \in DOMAIN tree_nodes : ToggleCheckbox(i)

\* C28: a file toggle, folder toggle, select-all or deselect-all leaves every
\* folder as expanded or collapsed as it was: a folder of the tree before
\* the step has the same is_expanded in the tree rebuilt after it.
C28_SelectionKeepsExpansion ==
    [][C28_SelectionChange =>
          \A i \in DOMAIN tree_nodes : \A j \in DOMAIN tree_nodes' :
              (/\ tree_nodes[i].node_type = "Folder"
               /\ tree_nodes'[j].node_type = "Folder"
               /\ tree_nodes'[j].path = tree_nodes[i].path) =>
                  tree_nodes'[j].is_expanded = tree_nodes[i].is_expanded]_vars

\* The settings after the changes of calls made one after the other.
RECURSIVE C29_InTurn(_, _)
C29_InTurn(self, calls) ==
    IF calls = <<>> THEN self
    ELSE C29_InTurn(ApplyAction(self, Head(calls)), Tail(calls))

\* The orders in which the changes asked for so far can be put.
C29_Orders ==
    {o \in [DOMAIN st_calls -> DOMAIN st_calls] :
        \A i, j \in DOMAIN st_calls : o[i] = o[j] => i = j}

\* C29: when no settings task is waiting any more, the settings in memory
\* are what the changes asked for give when made one after the other in some
\* order: none of them is lost, whatever the interleaving of the tasks.
C29_NoLostUpdate ==
    st_tasks = <<>> =>
        \E o \in C29_Orders :
            st_settings =
                C29_InTurn(DefaultSettings,
                           [i \in DOMAIN st_calls |-> st_calls[o[i]]])

\* C30: two copy actions made with the same SelectionSet and unchanged
\* files give the same result, block for block in the same order.
C30_CopyIsDeterministic ==
    \A i, j \in DOMAIN cc_result : cc_result[i] = cc_result[j]

====
